---------------------------- MODULE Spec2Model ----------------------------
(***************************************************************************)
(* picoweb: the Sudoku pipeline (Sudoku::parse, Sudoku::solve_fast,        *)
(* html_table / error_html / generate_html) and the two-phase response of  *)
(* FormValue (content_length, write_content) with its Sm2Guard.            *)
(*                                                                         *)
(* Texts (&str, heapless::String) are TLA+ strings; a character of a text  *)
(* is its one-character substring.  A panic of the program (an index out   *)
(* of bounds, an overflowing collect into a heapless::Vec) is the result   *)
(* "Panic" and the control position "panicked".                            *)
(***************************************************************************)
EXTENDS Integers, Sequences, FiniteSets, TLC

VARIABLES
    pc,          \* control position of the code that is running
    schema,      \* the &str handed to Sudoku::parse
    grid,        \* Sudoku.grid, [[u8; 9]; 9]
    parseRes,    \* what Sudoku::parse returned ("none" before the call)
    grid0,       \* history: the grid solve_fast was called with
    rows,        \* solve_fast's tracker rows  [[bool; 10]; 9]
    cols,        \* solve_fast's tracker cols  [[bool; 10]; 9]
    boxes,       \* solve_fast's tracker boxes [[bool; 10]; 9]
    stack,       \* the solve_rec activations, innermost last
    ret,         \* the value the last finished solve_rec call returned
    solveRes,    \* what Sudoku::solve_fast returned ("none" before)
    form,        \* FormValue.row_1 .. row_9
    message,     \* FormValue.message, the cached body
    html,        \* the String generate_html returned to content_length
    length,      \* what content_length returned (-1 before)
    sink,        \* the bytes write_content wrote ("none" before)
    sm2Cell,     \* SHARED_SM2_CELL: None, or the handle it holds
    sm2Locked,   \* the Sm2Mutex is locked
    sm2Enabled,  \* the state machine's enable bit
    guard,       \* content_length's _guard is Some(Sm2Guard)
    held,        \* the submission's code holds the Sm2Mutex (a MutexGuard lives)
    tryLog,      \* history: the outcomes of this submission's lookups and try_locks
    calls,       \* history: the pipeline functions this submission invoked
    phase1Calls, \* history: how many times content_length was entered
    mainPc,      \* control position of main (the process)
    setCalls,    \* history: the handles set_shared_sm2 was called with
    reqs         \* the submission each web task is serving

\* The history of one submission.
hist == <<calls, phase1Calls>>

\* What one submission did to the Sm2Mutex.
locking == <<held, tryLog>>

\* The process around the submissions: main and its web tasks.
server == <<mainPc, setCalls, reqs>>

\* The variables of the one submission Spec follows; the web tasks keep
\* theirs in reqs.
submission == <<schema, grid, parseRes, grid0, rows, cols, boxes, stack, ret,
                solveRes, form, message, html, length, sink, guard, held,
                tryLog, calls, phase1Calls>>
single == <<pc, submission>>

vars == <<pc, schema, grid, parseRes, grid0, rows, cols, boxes, stack, ret,
          solveRes, form, message, html, length, sink, sm2Cell, sm2Locked,
          sm2Enabled, guard, held, tryLog, calls, phase1Calls, mainPc,
          setCalls, reqs>>

-----------------------------------------------------------------------------
(* Texts *)

CharAt(s, i) == SubSeq(s, i, i)

\* The position of the first sep in s at or after from, 0 when there is none.
NextSep(s, sep, from) ==
    LET at == {i \in from..Len(s) : CharAt(s, i) = sep}
    IN IF at = {} THEN 0 ELSE CHOOSE i \in at : \A j \in at : i <= j

\* core::str::split(sep): one more piece than there are separators.
RECURSIVE SplitFrom(_, _, _)
SplitFrom(s, sep, start) ==
    LET n == NextSep(s, sep, start)
    IN IF n = 0 THEN << SubSeq(s, start, Len(s)) >>
       ELSE << SubSeq(s, start, n - 1) >> \o SplitFrom(s, sep, n + 1)

Split(s, sep) == SplitFrom(s, sep, 1)

\* The white space str::trim removes (the characters of it the inputs use).
WhiteSpace == {" ", "\t", "\n", "\r"}

RECURSIVE TrimStart(_)
TrimStart(s) ==
    IF Len(s) > 0 /\ CharAt(s, 1) \in WhiteSpace
    THEN TrimStart(SubSeq(s, 2, Len(s)))
    ELSE s

RECURSIVE TrimEnd(_)
TrimEnd(s) ==
    IF Len(s) > 0 /\ CharAt(s, Len(s)) \in WhiteSpace
    THEN TrimEnd(SubSeq(s, 1, Len(s) - 1))
    ELSE s

Trim(s) == TrimEnd(TrimStart(s))

DecimalDigits == <<"0", "1", "2", "3", "4", "5", "6", "7", "8", "9">>

IsDigitChar(ch) == \E k \in 1..10 : DecimalDigits[k] = ch

DigitValue(ch) == (CHOOSE k \in 1..10 : DecimalDigits[k] = ch) - 1

U8Max == 255

\* The digits of s from position i on, accumulated onto acc as
\* u8::from_str does: -1 for a character that is no digit and for a value
\* above u8::MAX.
RECURSIVE ParseDigits(_, _, _)
ParseDigits(s, i, acc) ==
    IF i > Len(s) THEN acc
    ELSE IF ~IsDigitChar(CharAt(s, i)) THEN -1
    ELSE LET v == acc * 10 + DigitValue(CharAt(s, i))
         IN IF v > U8Max THEN -1 ELSE ParseDigits(s, i + 1, v)

\* str::parse::<u8>: the value, or -1 for Err(ParseIntError).  An empty
\* text and a lone sign are errors, a leading "+" is accepted, "-" is not.
ParseU8(s) ==
    IF Len(s) = 0 THEN -1
    ELSE IF Len(s) = 1 /\ CharAt(s, 1) \in {"+", "-"} THEN -1
    ELSE IF CharAt(s, 1) = "+" THEN ParseDigits(s, 2, 0)
    ELSE ParseDigits(s, 1, 0)


-----------------------------------------------------------------------------
(* Sudoku::parse *)

Idx == 0..8

\* Sudoku::default(): every cell 0.
DefaultGrid == [r \in Idx |-> [c \in Idx |-> 0]]

LinesCap == 9
NumbersCap == 18
RowLen == 9

\* Mutant of ParseToken: "_" is not taken for an empty cell.
ParseTokenNoBlank(s) == ParseU8(Trim(s))

\* One token of a row-group: "_" is 0, anything else goes through
\* parse::<u8>; -1 stands for Err(InvalidNumber).
ParseToken(s) == IF Trim(s) = "_" THEN 0 ELSE ParseU8(Trim(s))

\* collect::<Result<heapless::Vec<u8, 18>, _>>(): the tokens are mapped in
\* order; the first Err ends the collection, and pushing a 19th value into
\* the full Vec panics ("Vec::from_iter overflow").
RECURSIVE CollectNumbers(_, _, _)
CollectNumbers(toks, i, acc) ==
    IF i > Len(toks) THEN [res |-> "Ok", numbers |-> acc]
    ELSE LET v == ParseToken(toks[i])
         IN IF v = -1 THEN [res |-> "InvalidNumber", numbers |-> acc]
            ELSE IF Len(acc) = NumbersCap THEN [res |-> "Panic", numbers |-> acc]
            ELSE CollectNumbers(toks, i + 1, Append(acc, v))

\* numbers.as_slice().try_into() for [u8; 9]: fails unless there are 9.
TryIntoRow(numbers) ==
    IF Len(numbers) = RowLen
    THEN [res |-> "Ok", row |-> [c \in Idx |-> numbers[c + 1]]]
    ELSE [res |-> "InvalidFormat", row |-> [c \in Idx |-> 0]]

\* Mutant of ParseLine: the number of tokens is left to try_into.
ParseLineNoCount(line) ==
    LET got == CollectNumbers(Split(line, ","), 1, <<>>)
    IN IF got.res # "Ok" THEN [res |-> got.res, row |-> [c \in Idx |-> 0]]
       ELSE TryIntoRow(got.numbers)

\* The body of parse's loop for one row-group.
ParseLine(line) ==
    LET got == CollectNumbers(Split(line, ","), 1, <<>>)
    IN IF got.res # "Ok" THEN [res |-> got.res, row |-> [c \in Idx |-> 0]]
       ELSE IF Len(got.numbers) # 9
            THEN [res |-> "InvalidNumber", row |-> [c \in Idx |-> 0]]
            ELSE TryIntoRow(got.numbers)

\* parse's loop from row-group i on: a row is stored as soon as it is
\* converted, so an error in a later row leaves the earlier rows written.
RECURSIVE ParseLines(_, _, _)
ParseLines(g, lines, i) ==
    IF i > Len(lines) THEN [res |-> "Ok", grid |-> g]
    ELSE LET r == ParseLine(lines[i])
         IN IF r.res # "Ok" THEN [res |-> r.res, grid |-> g]
            ELSE ParseLines([g EXCEPT ![i - 1] = r.row], lines, i + 1)

\* Sudoku::parse(&mut self, schema) on a Sudoku whose grid is g.  The
\* collect into heapless::Vec<&str, 9> panics on a 10th row-group.
Parse(g, s) ==
    LET lines == Split(s, " ")
    IN IF Len(lines) > LinesCap THEN [res |-> "Panic", grid |-> g]
       ELSE IF Len(lines) # 9 THEN [res |-> "NotEnoughArguments", grid |-> g]
       ELSE ParseLines(g, lines, 1)

-----------------------------------------------------------------------------
(* The grids and texts the checks run on *)

Cells == Idx \X Idx

\* The solved grid of the specification's end-to-end example.
SolutionRows ==
    << <<5, 3, 4, 6, 7, 8, 9, 1, 2>>,
       <<6, 7, 2, 1, 9, 5, 3, 4, 8>>,
       <<1, 9, 8, 3, 4, 2, 5, 6, 7>>,
       <<8, 5, 9, 7, 6, 1, 4, 2, 3>>,
       <<4, 2, 6, 8, 5, 3, 7, 9, 1>>,
       <<7, 1, 3, 9, 2, 4, 8, 5, 6>>,
       <<9, 6, 1, 5, 3, 7, 2, 8, 4>>,
       <<2, 8, 7, 4, 1, 9, 6, 3, 5>>,
       <<3, 4, 5, 2, 8, 6, 1, 7, 9>> >>

Solution == [r \in Idx |-> [c \in Idx |-> SolutionRows[r + 1][c + 1]]]

\* g with the cells of B emptied.
Blanked(g, B) == [r \in Idx |-> [c \in Idx |-> IF <<r, c>> \in B THEN 0 ELSE g[r][c]]]

\* g with cell p holding v.
Poked(g, p, v) == [g EXCEPT ![p[1]][p[2]] = v]

\* The pieces from the i-th on, with sep between them.
RECURSIVE JoinFrom(_, _, _)
JoinFrom(pieces, sep, i) ==
    IF i > Len(pieces) THEN ""
    ELSE IF i = Len(pieces) THEN pieces[i]
    ELSE pieces[i] \o sep \o JoinFrom(pieces, sep, i + 1)

Join(pieces, sep) == JoinFrom(pieces, sep, 1)

\* The canonical text of a grid: rows joined by one space, cells by commas,
\* an empty cell written "_".
CellText(v) == IF v = 0 THEN "_" ELSE ToString(v)
RowText(row) == Join([k \in 1..9 |-> CellText(row[k - 1])], ",")
Serialize(g) == Join([k \in 1..9 |-> RowText(g[k - 1])], " ")

\* The cells emptied in the input grids: the rectangle (2,4) (2,5) (5,4)
\* (5,5) of the solved grid holds 4 2 / 2 4 and the rectangle (5,3) (5,5)
\* (7,3) (7,5) holds 9 4 / 4 9, so that emptying them gives grids with two
\* completions and grids on which the search has to backtrack.
HoleCells == {<<2, 4>>, <<2, 5>>, <<5, 3>>, <<5, 4>>, <<5, 5>>, <<7, 3>>, <<7, 5>>}

\* At most this many cells are emptied in an input grid.
MaxBlanks == 4

\* The cell that is overwritten in an input grid, with any of 0..9: that
\* gives grids with a repeated digit and grids with no repeated digit and no
\* completion.
PokeCell == <<2, 4>>

InputGrids ==
    LET blanked == {Blanked(Solution, B) :
                       B \in {X \in SUBSET HoleCells : Cardinality(X) <= MaxBlanks}}
    IN blanked \cup {Poked(g, PokeCell, v) : g \in blanked, v \in 0..9}

\* Every input grid with its canonical text.
SerializedInputs == {<<g, Serialize(g)>> : g \in InputGrids}

\* Row-groups repeated to make texts of 1..MaxGroups row-groups.
MaxGroups == 11
SampleGroups == {"5,3,_,_,7,_,_,_,_", "a,b", ""}
GroupCountTexts ==
    {Join([k \in 1..n |-> row], " ") : n \in 1..MaxGroups, row \in SampleGroups}

\* Tokens put into a row-group: accepted ones ("_", numbers up to 255, a
\* sign, leading zeros, white space around) and rejected ones.
SampleTokens ==
    {"_", "0", "5", "9", "10", "255", "256", "a", "", "+3", "-1", "007",
     "\t8\t", "1_", "+"}

\* A row-group of k tokens, the j-th being t and the others 1, 2, .., 9, 1, ..
MaxTokens == 20
TokenRow(k, j, t) ==
    Join([m \in 1..k |-> IF m = j THEN t ELSE ToString(((m - 1) % 9) + 1)], ",")

\* Texts of nine row-groups, all canonical rows of the solved grid but one,
\* which is a TokenRow with the chosen token first or last.
DefectRows == {1, 5, 9}
DefectText(d, row) ==
    Join([i \in 1..9 |-> IF i = d THEN row ELSE RowText(Solution[i - 1])], " ")
TokenTexts ==
    UNION {{DefectText(d, TokenRow(k, 1, t)), DefectText(d, TokenRow(k, k, t))} :
              d \in DefectRows, k \in 1..MaxTokens, t \in SampleTokens}

ParseTexts ==
    {x[2] : x \in SerializedInputs} \cup GroupCountTexts \cup TokenTexts

\* What the Sudoku holds when parse is called on it.
PriorGrids == {DefaultGrid, Solution}

-----------------------------------------------------------------------------
(* Sudoku::solve_fast and its inner solve_rec *)

Digits == 1..9
Slots == 0..9

\* b = (row / 3) * 3 + (col / 3)
BoxOf(row, col) == (row \div 3) * 3 + (col \div 3)

NoTracker == [u \in Idx |-> [d \in Slots |-> FALSE]]

\* The tracker tables after solve_fast's initialisation loop over g.
InitRows(g) == [r \in Idx |-> [d \in Slots |-> d # 0 /\ \E c \in Idx : g[r][c] = d]]
InitCols(g) == [c \in Idx |-> [d \in Slots |-> d # 0 /\ \E r \in Idx : g[r][c] = d]]
InitBoxes(g) ==
    [b \in Idx |-> [d \in Slots |->
        d # 0 /\ \E r, c \in Idx : BoxOf(r, c) = b /\ g[r][c] = d]]

\* rows[row][num as usize] with num >= 10 is an index out of bounds.
TrackerIndexPanics(g) == \E r, c \in Idx : g[r][c] \notin Slots

\* solve_fast up to its call of solve_rec.
SolveFastInit ==
    /\ pc = "solve_fast"
    /\ grid0' = grid
    /\ stack' = << >>
    /\ IF TrackerIndexPanics(grid)
       THEN /\ pc' = "panicked"
            /\ solveRes' = "Panic"
            /\ UNCHANGED <<rows, cols, boxes>>
       ELSE /\ pc' = "rec_call"
            /\ rows' = InitRows(grid)
            /\ cols' = InitCols(grid)
            /\ boxes' = InitBoxes(grid)
            /\ UNCHANGED solveRes
    /\ calls' = Append(calls, "solve_fast")
    /\ UNCHANGED <<schema, grid, parseRes, ret, form, message, html, length,
                   sink, sm2Cell, sm2Locked, sm2Enabled, guard>>
    /\ UNCHANGED <<phase1Calls, locking, server>>

HasEmpty(g) == \E k \in 0..80 : g[k \div 9][k % 9] = 0

\* Mutant of FirstEmpty: the last cell holding 0 is taken.
LastEmpty(g) ==
    LET k == CHOOSE k \in 0..80 :
                 /\ g[k \div 9][k % 9] = 0
                 /\ \A j \in (k + 1)..80 : g[j \div 9][j % 9] # 0
    IN <<k \div 9, k % 9>>

\* The first cell holding 0 in the scan `for row in 0..9 { for col in 0..9`.
FirstEmpty(g) ==
    LET k == CHOOSE k \in 0..80 :
                 /\ g[k \div 9][k % 9] = 0
                 /\ \A j \in 0..(k - 1) : g[j \div 9][j % 9] # 0
    IN <<k \div 9, k % 9>>

Top == stack[Len(stack)]
Pop == SubSeq(stack, 1, Len(stack) - 1)

\* Mutant of Viable: the column table is not consulted.
ViableIgnoringCols(row, col, num) ==
    /\ ~rows[row][num]
    /\ ~boxes[BoxOf(row, col)][num]

\* !rows[row][num] && !cols[col][num] && !boxes[b][num]
Viable(row, col, num) ==
    /\ ~rows[row][num]
    /\ ~cols[col][num]
    /\ ~boxes[BoxOf(row, col)][num]

\* Mutant of RecEnter: the digit loop starts at 3 instead of 1.
RecEnterSkipsDigits ==
    /\ pc = "rec_call"
    /\ IF HasEmpty(grid)
       THEN /\ stack' = Append(stack, [row |-> FirstEmpty(grid)[1],
                                       col |-> FirstEmpty(grid)[2],
                                       num |-> 3])
            /\ pc' = "rec_loop"
            /\ UNCHANGED ret
       ELSE /\ ret' = TRUE
            /\ pc' = "rec_ret"
            /\ UNCHANGED stack
    /\ UNCHANGED <<schema, grid, parseRes, grid0, rows, cols, boxes, solveRes,
                   form, message, html, length, sink, sm2Cell, sm2Locked,
                   sm2Enabled, guard>>
    /\ UNCHANGED <<hist, locking, server>>

\* Entry of a solve_rec call: the scan for the first empty cell.  With none
\* the call returns true; otherwise it starts the digit loop at that cell.
RecEnter ==
    /\ pc = "rec_call"
    /\ IF HasEmpty(grid)
       THEN /\ stack' = Append(stack, [row |-> FirstEmpty(grid)[1],
                                       col |-> FirstEmpty(grid)[2],
                                       num |-> 1])
            /\ pc' = "rec_loop"
            /\ UNCHANGED ret
       ELSE /\ ret' = TRUE
            /\ pc' = "rec_ret"
            /\ UNCHANGED stack
    /\ UNCHANGED <<schema, grid, parseRes, grid0, rows, cols, boxes, solveRes,
                   form, message, html, length, sink, sm2Cell, sm2Locked,
                   sm2Enabled, guard>>
    /\ UNCHANGED <<hist, locking, server>>

\* One pass of `for num in 1..=9`: a viable digit is placed and solve_rec is
\* called again, any other digit is skipped.
RecTry ==
    /\ pc = "rec_loop"
    /\ Top.num <= 9
    /\ LET row == Top.row
           col == Top.col
           num == Top.num
           b == BoxOf(Top.row, Top.col)
       IN IF Viable(row, col, num)
          THEN /\ grid' = [grid EXCEPT ![row][col] = num]
               /\ rows' = [rows EXCEPT ![row][num] = TRUE]
               /\ cols' = [cols EXCEPT ![col][num] = TRUE]
               /\ boxes' = [boxes EXCEPT ![b][num] = TRUE]
               /\ pc' = "rec_call"
               /\ UNCHANGED stack
          ELSE /\ stack' = [stack EXCEPT ![Len(stack)].num = num + 1]
               /\ UNCHANGED <<grid, rows, cols, boxes, pc>>
    /\ UNCHANGED <<schema, parseRes, grid0, ret, solveRes, form, message, html,
                   length, sink, sm2Cell, sm2Locked, sm2Enabled, guard>>
    /\ UNCHANGED <<hist, locking, server>>

\* Mutant of RecExhausted: the digit loop may end before 9 is tried.
RecExhaustedEarly ==
    /\ pc = "rec_loop"
    /\ Top.num > 8
    /\ stack' = Pop
    /\ ret' = FALSE
    /\ pc' = "rec_ret"
    /\ UNCHANGED <<schema, grid, parseRes, grid0, rows, cols, boxes, solveRes,
                   form, message, html, length, sink, sm2Cell, sm2Locked,
                   sm2Enabled, guard>>
    /\ UNCHANGED <<hist, locking, server>>

\* The digit loop ran out: `return false`.
RecExhausted ==
    /\ pc = "rec_loop"
    /\ Top.num > 9
    /\ stack' = Pop
    /\ ret' = FALSE
    /\ pc' = "rec_ret"
    /\ UNCHANGED <<schema, grid, parseRes, grid0, rows, cols, boxes, solveRes,
                   form, message, html, length, sink, sm2Cell, sm2Locked,
                   sm2Enabled, guard>>
    /\ UNCHANGED <<hist, locking, server>>

\* Mutant of RecReturn: after the first failed placement is undone the
\* activation gives up instead of going on with the next digit.
RecReturnGivesUp ==
    /\ pc = "rec_ret"
    /\ stack # << >>
    /\ LET row == Top.row
           col == Top.col
           num == Top.num
           b == BoxOf(Top.row, Top.col)
       IN IF ret
          THEN /\ stack' = Pop
               /\ UNCHANGED <<grid, rows, cols, boxes, pc>>
          ELSE /\ grid' = [grid EXCEPT ![row][col] = 0]
               /\ rows' = [rows EXCEPT ![row][num] = FALSE]
               /\ cols' = [cols EXCEPT ![col][num] = FALSE]
               /\ boxes' = [boxes EXCEPT ![b][num] = FALSE]
               /\ stack' = [stack EXCEPT ![Len(stack)].num = 10]
               /\ pc' = "rec_loop"
    /\ UNCHANGED <<schema, parseRes, grid0, ret, solveRes, form, message, html,
                   length, sink, sm2Cell, sm2Locked, sm2Enabled, guard>>
    /\ UNCHANGED <<hist, locking, server>>

\* Mutant of RecReturn: the undo clears the tracker but not the cell.
RecReturnKeepsCell ==
    /\ pc = "rec_ret"
    /\ stack # << >>
    /\ LET row == Top.row
           col == Top.col
           num == Top.num
           b == BoxOf(Top.row, Top.col)
       IN IF ret
          THEN /\ stack' = Pop
               /\ UNCHANGED <<grid, rows, cols, boxes, pc>>
          ELSE /\ UNCHANGED grid
               /\ rows' = [rows EXCEPT ![row][num] = FALSE]
               /\ cols' = [cols EXCEPT ![col][num] = FALSE]
               /\ boxes' = [boxes EXCEPT ![b][num] = FALSE]
               /\ stack' = [stack EXCEPT ![Len(stack)].num = num + 1]
               /\ pc' = "rec_loop"
    /\ UNCHANGED <<schema, parseRes, grid0, ret, solveRes, form, message, html,
                   length, sink, sm2Cell, sm2Locked, sm2Enabled, guard>>
    /\ UNCHANGED <<hist, locking, server>>

\* Mutant of RecReturn: after the undo the same digit is tried again.
RecReturnRetries ==
    /\ pc = "rec_ret"
    /\ stack # << >>
    /\ LET row == Top.row
           col == Top.col
           num == Top.num
           b == BoxOf(Top.row, Top.col)
       IN IF ret
          THEN /\ stack' = Pop
               /\ UNCHANGED <<grid, rows, cols, boxes, pc>>
          ELSE /\ grid' = [grid EXCEPT ![row][col] = 0]
               /\ rows' = [rows EXCEPT ![row][num] = FALSE]
               /\ cols' = [cols EXCEPT ![col][num] = FALSE]
               /\ boxes' = [boxes EXCEPT ![b][num] = FALSE]
               /\ UNCHANGED stack
               /\ pc' = "rec_loop"
    /\ UNCHANGED <<schema, parseRes, grid0, ret, solveRes, form, message, html,
                   length, sink, sm2Cell, sm2Locked, sm2Enabled, guard>>
    /\ UNCHANGED <<hist, locking, server>>

\* Mutant of RecReturn: the undo leaves the box slot of the tracker set.
RecReturnKeepsBox ==
    /\ pc = "rec_ret"
    /\ stack # << >>
    /\ LET row == Top.row
           col == Top.col
           num == Top.num
       IN IF ret
          THEN /\ stack' = Pop
               /\ UNCHANGED <<grid, rows, cols, boxes, pc>>
          ELSE /\ grid' = [grid EXCEPT ![row][col] = 0]
               /\ rows' = [rows EXCEPT ![row][num] = FALSE]
               /\ cols' = [cols EXCEPT ![col][num] = FALSE]
               /\ UNCHANGED boxes
               /\ stack' = [stack EXCEPT ![Len(stack)].num = num + 1]
               /\ pc' = "rec_loop"
    /\ UNCHANGED <<schema, parseRes, grid0, ret, solveRes, form, message, html,
                   length, sink, sm2Cell, sm2Locked, sm2Enabled, guard>>
    /\ UNCHANGED <<hist, locking, server>>

\* A recursive call came back to the activation that made it: true is
\* passed up, false undoes the placement and goes on with the next digit.
RecReturn ==
    /\ pc = "rec_ret"
    /\ stack # << >>
    /\ LET row == Top.row
           col == Top.col
           num == Top.num
           b == BoxOf(Top.row, Top.col)
       IN IF ret
          THEN /\ stack' = Pop
               /\ UNCHANGED <<grid, rows, cols, boxes, pc>>
          ELSE /\ grid' = [grid EXCEPT ![row][col] = 0]
               /\ rows' = [rows EXCEPT ![row][num] = FALSE]
               /\ cols' = [cols EXCEPT ![col][num] = FALSE]
               /\ boxes' = [boxes EXCEPT ![b][num] = FALSE]
               /\ stack' = [stack EXCEPT ![Len(stack)].num = num + 1]
               /\ pc' = "rec_loop"
    /\ UNCHANGED <<schema, parseRes, grid0, ret, solveRes, form, message, html,
                   length, sink, sm2Cell, sm2Locked, sm2Enabled, guard>>
    /\ UNCHANGED <<hist, locking, server>>

\* The outermost solve_rec call came back to solve_fast.
SolveFastReturn ==
    /\ pc = "rec_ret"
    /\ stack = << >>
    /\ solveRes' = IF ret THEN "Ok" ELSE "NoSolution"
    /\ pc' = "solve_done"
    /\ UNCHANGED <<schema, grid, parseRes, grid0, rows, cols, boxes, stack, ret,
                   form, message, html, length, sink, sm2Cell, sm2Locked,
                   sm2Enabled, guard>>
    /\ UNCHANGED <<hist, locking, server>>

-----------------------------------------------------------------------------
(* utility.rs: error_html, html_table, generate_html *)

HTML_HEADER ==
    "<!DOCTYPE html><html><head><meta charset=\"utf-8\"><title>Sudoku Result</title></head><body>"
HTML_FOOTER == "</body></html>"

\* The capacity of heapless::String<1024>, in bytes (the texts are ASCII).
HtmlCap == 1024
CellCap == 24
RowCap == 20

\* heapless::String::push_str(..).unwrap_or_default(): the piece is appended
\* whole, or not at all when it does not fit the capacity.
PushStr(h, piece, cap) == IF Len(h) + Len(piece) <= cap THEN h \o piece ELSE h

\* heapless::format!(..).unwrap_or_default() of a text: empty when it does
\* not fit the capacity.
FormatOrDefault(text, cap) == IF Len(text) <= cap THEN text ELSE ""

\* impl Debug for SudokuError
DebugText(err) ==
    CASE err = "InvalidFormat" -> "Invalid format"
      [] err = "InvalidNumber" -> "Invalid number"
      [] err = "NotEnoughArguments" -> "Not enough arguments"
      [] err = "NoSolution" -> "No solution found"

\* Mutant of error_html: the error kind is left out of the banner.
error_html_without_kind(msg, err) ==
    FormatOrDefault(HTML_HEADER \o "<h1>" \o msg \o "</h1>" \o HTML_FOOTER, HtmlCap)

error_html(msg, err) ==
    FormatOrDefault(
        HTML_HEADER \o "<h1>" \o msg \o ": " \o DebugText(err) \o "</h1>" \o HTML_FOOTER,
        HtmlCap)

\* format!("<td>{cell}</td>").unwrap_or_default() into a String<24>
CellHtml(cell) == FormatOrDefault("<td>" \o ToString(cell) \o "</td>", CellCap)

\* html_table's inner loop from column c on: push_str of each cell's text,
\* dropped when it does not fit.
RECURSIVE PushCells(_, _, _)
PushCells(h, row, c) ==
    IF c > 8 THEN h
    ELSE IF Len(h) + Len(CellHtml(row[c])) <= HtmlCap
         THEN PushCells(h \o CellHtml(row[c]), row, c + 1)
         ELSE PushCells(h, row, c + 1)

\* html_table's outer loop from row r on: "<tr>" is pushed with unwrap(), the
\* cells and "</tr>" are dropped when they do not fit.  The result is the
\* empty text when the unwrap panics (html is never empty otherwise).
RECURSIVE PushRows(_, _, _)
PushRows(h, g, r) ==
    IF r > 8 THEN h
    ELSE IF Len(h) + Len("<tr>") <= HtmlCap
         THEN PushRows(PushStr(PushCells(h \o "<tr>", g[r], 0), "</tr>", HtmlCap), g, r + 1)
         ELSE ""

\* The first two push_str are unwrapped; both fit the empty String.  The
\* result is the empty text when html_table panics.
html_table(g) ==
    CHOOSE page \in {
        IF body = "" THEN ""
        ELSE PushStr(PushStr(body, "</table>", HtmlCap), HTML_FOOTER, HtmlCap) :
        body \in {PushRows(HTML_HEADER \o "<h1>Solved Sudoku</h1><table border=\"1\">", g, 0)}
    } : TRUE

\* format!("{} {} {} {} {} {} {} {} {}", form.row_1, ..).unwrap_or_default()
FormatSchema(f) == FormatOrDefault(Join(f, " "), HtmlCap)

\* Mutant of StoreMessage: the cached slot is not cleared first.
StoreMessageNoClear(old, processing) == PushStr(old, processing, HtmlCap)

\* form.message.borrow_mut().clear(); ..push_str(&processing).unwrap_or_default()
StoreMessage(old, processing) == PushStr("", processing, HtmlCap)

-----------------------------------------------------------------------------
(* form_value.rs: content_length, write_content, Sm2Guard *)

\* No handler is running and the FormValue has not been consumed.
Callable == pc \in {"idle", "phase1_done"}

\* The empty SHARED_SM2_CELL, and the &'static Sm2Mutex values it can hold:
\* main's sm2_ref, and one more to tell handles apart.
None == "None"
Handles == {"sm2_ref", "sm2_other"}

\* get_shared_sm2(): a copy of what the cell holds.
get_shared_sm2 == sm2Cell

\* content_length(&self) can be called again and again; the model stops at
\* MaxPhase1Calls calls on one submission.
MaxPhase1Calls == 2

\* Mutant of ContentLengthEnter: with the handle set, content_length waits
\* until the Sm2Mutex is free.
ContentLengthEnterWaits ==
    /\ Callable
    /\ phase1Calls < MaxPhase1Calls
    /\ phase1Calls' = phase1Calls + 1
    /\ IF get_shared_sm2 = None
       THEN /\ tryLog' = Append(tryLog, "lookup_none")
            /\ pc' = "generate_html"
            /\ UNCHANGED <<sm2Locked, held>>
       ELSE /\ ~sm2Locked
            /\ tryLog' = Append(tryLog, "entry_ok")
            /\ sm2Locked' = TRUE
            /\ held' = TRUE
            /\ pc' = "guard_new"
    /\ guard' = FALSE
    /\ UNCHANGED <<schema, grid, parseRes, grid0, rows, cols, boxes, stack, ret,
                   solveRes, form, message, html, length, sink, sm2Cell,
                   sm2Enabled>>
    /\ UNCHANGED <<calls, server>>

\* content_length up to the try_lock of Sm2Guard::new: get_shared_sm2 gives
\* None, or the try_lock fails, and content_length goes on to generate_html
\* without a guard; or the try_lock succeeds and Sm2Guard::new holds the
\* MutexGuard.
ContentLengthEnter ==
    /\ Callable
    /\ phase1Calls < MaxPhase1Calls
    /\ phase1Calls' = phase1Calls + 1
    /\ IF get_shared_sm2 = None
       THEN /\ tryLog' = Append(tryLog, "lookup_none")
            /\ pc' = "generate_html"
            /\ UNCHANGED <<sm2Locked, held>>
       ELSE IF sm2Locked
            THEN /\ tryLog' = Append(tryLog, "entry_err")
                 /\ pc' = "generate_html"
                 /\ UNCHANGED <<sm2Locked, held>>
            ELSE /\ tryLog' = Append(tryLog, "entry_ok")
                 /\ sm2Locked' = TRUE
                 /\ held' = TRUE
                 /\ pc' = "guard_new"
    /\ guard' = FALSE
    /\ UNCHANGED <<schema, grid, parseRes, grid0, rows, cols, boxes, stack, ret,
                   solveRes, form, message, html, length, sink, sm2Cell,
                   sm2Enabled>>
    /\ UNCHANGED <<calls, server>>

\* Mutant of Sm2GuardNew: the guard keeps the MutexGuard for its lifetime.
Sm2GuardNewKeepsLock ==
    /\ pc = "guard_new"
    /\ sm2Enabled' = TRUE
    /\ guard' = TRUE
    /\ pc' = "generate_html"
    /\ UNCHANGED <<schema, grid, parseRes, grid0, rows, cols, boxes, stack, ret,
                   solveRes, form, message, html, length, sink, sm2Cell,
                   sm2Locked>>
    /\ UNCHANGED <<hist, locking, server>>

\* The Ok arm of Sm2Guard::new: sm.set_enable(true), the MutexGuard sm is
\* dropped at the end of the arm, and Some(Self { shared_sm2 }) becomes
\* content_length's _guard.
Sm2GuardNew ==
    /\ pc = "guard_new"
    /\ sm2Enabled' = TRUE
    /\ sm2Locked' = FALSE
    /\ held' = FALSE
    /\ guard' = TRUE
    /\ pc' = "generate_html"
    /\ UNCHANGED <<schema, grid, parseRes, grid0, rows, cols, boxes, stack, ret,
                   solveRes, form, message, html, length, sink, sm2Cell>>
    /\ UNCHANGED <<hist, tryLog, server>>

\* generate_html up to the call of solve_fast: the schema is formatted and
\* parsed into a default Sudoku; a parse error is rendered right away.
GenerateHtmlParse ==
    /\ pc = "generate_html"
    /\ schema' = FormatSchema(form)
    /\ solveRes' = "none"
    /\ \E r \in {Parse(DefaultGrid, FormatSchema(form))} :
          /\ parseRes' = r.res
          /\ grid' = r.grid
          /\ CASE r.res = "Ok" -> /\ pc' = "solve_fast"
                                   /\ calls' = Append(calls, "parse")
                                   /\ UNCHANGED html
               [] r.res = "Panic" -> /\ pc' = "panicked"
                                      /\ calls' = Append(calls, "parse")
                                      /\ UNCHANGED html
               [] OTHER -> /\ pc' = "processed"
                           /\ calls' = calls \o <<"parse", "error_html">>
                           /\ html' = error_html("Error parsing schema", r.res)
    /\ UNCHANGED <<grid0, rows, cols, boxes, stack, ret, form, message, length,
                   sink, sm2Cell, sm2Locked, sm2Enabled, guard>>
    /\ UNCHANGED <<phase1Calls, locking, server>>

\* generate_html after solve_fast returned: the table or the error page.
GenerateHtmlSolved ==
    /\ pc = "solve_done"
    /\ \E page \in {IF solveRes = "Ok" THEN html_table(grid)
                      ELSE error_html("Error solving schema", solveRes)} :
          IF solveRes = "Ok" /\ page = ""
          THEN pc' = "panicked" /\ UNCHANGED html
          ELSE pc' = "processed" /\ html' = page
    /\ calls' = Append(calls, IF solveRes = "Ok" THEN "html_table" ELSE "error_html")
    /\ UNCHANGED <<schema, grid, parseRes, grid0, rows, cols, boxes, stack, ret,
                   solveRes, form, message, length, sink, sm2Cell, sm2Locked,
                   sm2Enabled, guard>>
    /\ UNCHANGED <<phase1Calls, locking, server>>

\* The end of generate_html: the page is stored in form.message.
GenerateHtmlStore ==
    /\ pc = "processed"
    /\ message' = StoreMessage(message, html)
    /\ pc' = "generated"
    /\ UNCHANGED <<schema, grid, parseRes, grid0, rows, cols, boxes, stack, ret,
                   solveRes, form, html, length, sink, sm2Cell, sm2Locked,
                   sm2Enabled, guard>>
    /\ UNCHANGED <<hist, locking, server>>

\* Mutant of ContentLengthReturn: without a guard the length is 0.
ContentLengthReturnNeedsGuard ==
    /\ pc = "generated"
    /\ length' = IF guard THEN Len(html) ELSE 0
    /\ IF ~guard
       THEN /\ pc' = "phase1_done"
            /\ UNCHANGED <<sm2Locked, held, tryLog, guard>>
       ELSE IF sm2Locked
            THEN /\ tryLog' = Append(tryLog, "exit_err")
                 /\ guard' = FALSE
                 /\ pc' = "phase1_done"
                 /\ UNCHANGED <<sm2Locked, held>>
            ELSE /\ tryLog' = Append(tryLog, "exit_ok")
                 /\ sm2Locked' = TRUE
                 /\ held' = TRUE
                 /\ pc' = "guard_drop"
                 /\ UNCHANGED guard
    /\ UNCHANGED <<schema, grid, parseRes, grid0, rows, cols, boxes, stack, ret,
                   solveRes, form, message, html, sink, sm2Cell, sm2Enabled>>
    /\ UNCHANGED <<hist, server>>

\* Mutant of ContentLengthReturn: the device is disabled on exit whether
\* or not this call holds a guard.
ContentLengthReturnAlwaysDisables ==
    /\ pc = "generated"
    /\ length' = Len(html)
    /\ IF sm2Cell = None
       THEN /\ pc' = "phase1_done"
            /\ guard' = FALSE
            /\ UNCHANGED <<sm2Locked, held, tryLog>>
       ELSE IF sm2Locked
            THEN /\ tryLog' = Append(tryLog, "exit_err")
                 /\ guard' = FALSE
                 /\ pc' = "phase1_done"
                 /\ UNCHANGED <<sm2Locked, held>>
            ELSE /\ tryLog' = Append(tryLog, "exit_ok")
                 /\ sm2Locked' = TRUE
                 /\ held' = TRUE
                 /\ pc' = "guard_drop"
                 /\ UNCHANGED guard
    /\ UNCHANGED <<schema, grid, parseRes, grid0, rows, cols, boxes, stack, ret,
                   solveRes, form, message, html, sink, sm2Cell, sm2Enabled>>
    /\ UNCHANGED <<hist, server>>

\* The end of content_length: the length of the page is the result and
\* _guard is dropped.  Without a guard nothing more happens; with one, Drop
\* for Sm2Guard calls try_lock, and only logs when that fails.
ContentLengthReturn ==
    /\ pc = "generated"
    /\ length' = Len(html)
    /\ IF ~guard
       THEN /\ pc' = "phase1_done"
            /\ UNCHANGED <<sm2Locked, held, tryLog, guard>>
       ELSE IF sm2Locked
            THEN /\ tryLog' = Append(tryLog, "exit_err")
                 /\ guard' = FALSE
                 /\ pc' = "phase1_done"
                 /\ UNCHANGED <<sm2Locked, held>>
            ELSE /\ tryLog' = Append(tryLog, "exit_ok")
                 /\ sm2Locked' = TRUE
                 /\ held' = TRUE
                 /\ pc' = "guard_drop"
                 /\ UNCHANGED guard
    /\ UNCHANGED <<schema, grid, parseRes, grid0, rows, cols, boxes, stack, ret,
                   solveRes, form, message, html, sink, sm2Cell, sm2Enabled>>
    /\ UNCHANGED <<hist, server>>

\* The Ok arm of Drop for Sm2Guard: sm.set_enable(false), and the
\* MutexGuard sm is dropped at the end of the arm.
Sm2GuardDrop ==
    /\ pc = "guard_drop"
    /\ sm2Enabled' = FALSE
    /\ sm2Locked' = FALSE
    /\ held' = FALSE
    /\ guard' = FALSE
    /\ pc' = "phase1_done"
    /\ UNCHANGED <<schema, grid, parseRes, grid0, rows, cols, boxes, stack, ret,
                   solveRes, form, message, html, length, sink, sm2Cell>>
    /\ UNCHANGED <<hist, tryLog, server>>

\* Mutant of WriteContent: the body is rendered again on the way out.
WriteContentRendersAgain ==
    /\ Callable
    /\ calls' = Append(calls, "html_table")
    /\ message' = html_table(grid)
    /\ sink' = message'
    /\ pc' = "written"
    /\ UNCHANGED <<schema, grid, parseRes, grid0, rows, cols, boxes, stack, ret,
                   solveRes, form, html, length, sm2Cell, sm2Locked, sm2Enabled,
                   guard, phase1Calls, locking, server>>

\* Mutant of WriteContent: an empty slot is replaced by an error page.
WriteContentFallsBack ==
    /\ Callable
    /\ sink' = IF message = ""
               THEN error_html("Error parsing schema", "NotEnoughArguments")
               ELSE message
    /\ pc' = "written"
    /\ UNCHANGED <<schema, grid, parseRes, grid0, rows, cols, boxes, stack, ret,
                   solveRes, form, message, html, length, sm2Cell, sm2Locked,
                   sm2Enabled, guard, hist, locking, server>>

\* write_content(self, writer): the cached slot is handed to
\* writer.write_all; sink is what it was handed.  The FormValue is consumed.
WriteContent ==
    /\ Callable
    /\ sink' = message
    /\ pc' = "written"
    /\ UNCHANGED <<schema, grid, parseRes, grid0, rows, cols, boxes, stack, ret,
                   solveRes, form, message, html, length, sm2Cell, sm2Locked,
                   sm2Enabled, guard>>
    /\ UNCHANGED <<hist, locking, server>>

\* The rows of the submissions: the canonical rows of the input grids, and
\* those of the solved grid with one row replaced by a sample row.
FormOf(g) == [k \in 1..9 |-> RowText(g[k - 1])]

SampleRows ==
    {"", "a,b,c,d,e,f,g,h,i", "1,2,3,4,5,6,7,8", "1,2,3,4,5,6,7,8,9,1",
     "10,2,3,4,5,6,7,8,9", "255,2,3,4,5,6,7,8,9", "5,3 4,6,7,8,9,1,2",
     "1,1,1,1,1,1,1,1,1,1,"}

Forms ==
    {FormOf(g) : g \in InputGrids}
        \cup {[FormOf(Solution) EXCEPT ![d] = row] : d \in DefectRows, row \in SampleRows}

-----------------------------------------------------------------------------
(* The pipeline as a function of the submitted rows *)

\* solve_rec's digit loop at cell (row, col) from num on, on grid g with the
\* tracker t: the first digit the tracker allows and the recursive call
\* accepts; the grid is as it was when every digit was refused.
RECURSIVE solve_rec(_, _), TryDigits(_, _, _, _, _)
TryDigits(g, t, row, col, num) ==
    IF num > 9 THEN [ok |-> FALSE, grid |-> g]
    ELSE IF ~t.rows[row][num] /\ ~t.cols[col][num] /\ ~t.boxes[BoxOf(row, col)][num]
         THEN CHOOSE out \in {
                  IF r.ok THEN r ELSE TryDigits(g, t, row, col, num + 1) :
                  r \in {solve_rec(
                      [g EXCEPT ![row][col] = num],
                      [rows |-> [t.rows EXCEPT ![row][num] = TRUE],
                       cols |-> [t.cols EXCEPT ![col][num] = TRUE],
                       boxes |-> [t.boxes EXCEPT ![BoxOf(row, col)][num] = TRUE]])}
              } : TRUE
         ELSE TryDigits(g, t, row, col, num + 1)

\* fn solve_rec(grid, rows, cols, boxes) -> bool, with the grid it leaves.
solve_rec(g, t) ==
    IF HasEmpty(g)
    THEN TryDigits(g, t, FirstEmpty(g)[1], FirstEmpty(g)[2], 1)
    ELSE [ok |-> TRUE, grid |-> g]

\* Sudoku::solve_fast on grid g: its result and the grid it leaves.
solve_fast(g) ==
    IF TrackerIndexPanics(g) THEN [res |-> "Panic", grid |-> g]
    ELSE CHOOSE out \in {
             [res |-> IF r.ok THEN "Ok" ELSE "NoSolution", grid |-> r.grid] :
             r \in {solve_rec(g, [rows |-> InitRows(g), cols |-> InitCols(g),
                                  boxes |-> InitBoxes(g)])}
         } : TRUE

\* The match of generate_html on a parsed Sudoku.
RenderSolved(s) ==
    CASE s.res = "Panic" -> [panic |-> TRUE, text |-> ""]
      [] s.res = "Ok" -> [panic |-> html_table(s.grid) = "", text |-> html_table(s.grid)]
      [] OTHER -> [panic |-> FALSE, text |-> error_html("Error solving schema", s.res)]

\* generate_html(form): the String it returns, or that it panics.
generate_html(f) ==
    CHOOSE out \in {
        CASE p.res = "Panic" -> [panic |-> TRUE, text |-> ""]
          [] p.res = "Ok" -> RenderSolved(solve_fast(p.grid))
          [] OTHER -> [panic |-> FALSE,
                       text |-> error_html("Error parsing schema", p.res)] :
        p \in {Parse(DefaultGrid, FormatSchema(f))}
    } : TRUE

-----------------------------------------------------------------------------
(* main.rs: the web tasks, each serving one submission at a time *)

\* WEB_TASK_POOL_SIZE - 2 web tasks are spawned; the model has MaxWebTasks.
MaxWebTasks == 2
Tasks == 1..MaxWebTasks

\* What a web task holds before a submission arrives.
NoSubmission(at) ==
    [pc |-> at, form |-> << >>, message |-> "", html |-> "", length |-> -1,
     sink |-> "none", guard |-> FALSE]

\* The submissions the web tasks receive: one that is solved, one that does
\* not parse, one without solution and one that makes solve_fast panic.
ServerForms ==
    {FormOf(Blanked(Solution, {<<2, 4>>, <<5, 4>>})),
     [FormOf(Solution) EXCEPT ![1] = ""],
     [FormOf(Solution) EXCEPT ![3] = "1,9,8,3,_,4,5,6,7"],
     [FormOf(Solution) EXCEPT ![1] = "10,2,3,4,5,6,7,8,9"]}

\* The positions inside content_length, a fn without an await.
SyncPositions == {"in_scope", "generated"}

\* The tasks run on the one executor of #[embassy_executor::main]: a task
\* runs only while no other task is inside a function without an await.
CanRunPreempting(t) == TRUE

CanRun(t) == \A q \in Tasks \ {t} : reqs[q].pc \notin SyncPositions

\* The form extractor hands a deserialised FormValue to the handler, which
\* returns it as the response; message is skipped by serde and starts empty.
TaskReceive(t) ==
    /\ mainPc = "serving"
    /\ CanRun(t)
    /\ reqs[t].pc = "listening"
    /\ \E f \in ServerForms :
          reqs' = [reqs EXCEPT ![t] = [NoSubmission("received") EXCEPT !.form = f]]
    /\ UNCHANGED <<mainPc, setCalls, sm2Cell, sm2Locked, sm2Enabled, single>>

\* content_length up to its call of generate_html: get_shared_sm2 and
\* Sm2Guard::new (try_lock, set_enable(true), unlock).
TaskContentLengthEnter(t) ==
    /\ mainPc = "serving"
    /\ CanRun(t)
    /\ reqs[t].pc \in {"received", "phase1_done"}
    /\ IF get_shared_sm2 # None /\ ~sm2Locked
       THEN /\ sm2Enabled' = TRUE
            /\ reqs' = [reqs EXCEPT ![t].pc = "in_scope", ![t].guard = TRUE]
       ELSE /\ reqs' = [reqs EXCEPT ![t].pc = "in_scope", ![t].guard = FALSE]
            /\ UNCHANGED sm2Enabled
    /\ UNCHANGED <<mainPc, setCalls, sm2Cell, sm2Locked, single>>

\* Mutant of TaskGenerateHtml: the page goes to one slot all tasks share.
TaskGenerateHtmlShared(t) ==
    /\ mainPc = "serving"
    /\ reqs[t].pc = "in_scope"
    /\ \E out \in {generate_html(reqs[t].form)} :
          reqs' = [q \in Tasks |->
                      [reqs[q] EXCEPT
                          !.pc = IF q = t THEN "generated" ELSE reqs[q].pc,
                          !.html = IF q = t THEN out.text ELSE reqs[q].html,
                          !.message = out.text]]
    /\ UNCHANGED <<mainPc, setCalls, sm2Cell, sm2Locked, sm2Enabled, single>>

\* generate_html(self): the page is stored in message and returned; a panic
\* of the pipeline is a panic of the process, and nothing is dropped.
TaskGenerateHtml(t) ==
    /\ mainPc = "serving"
    /\ reqs[t].pc = "in_scope"
    /\ \E out \in {generate_html(reqs[t].form)} :
          IF out.panic
          THEN /\ mainPc' = "panicked"
               /\ reqs' = [reqs EXCEPT ![t].pc = "panicked"]
          ELSE /\ reqs' = [reqs EXCEPT
                               ![t].pc = "generated",
                               ![t].html = out.text,
                               ![t].message = StoreMessage(reqs[t].message, out.text)]
               /\ UNCHANGED mainPc
    /\ UNCHANGED <<setCalls, sm2Cell, sm2Locked, sm2Enabled, single>>

\* The end of content_length: html's length is the result and _guard is
\* dropped (try_lock, set_enable(false), unlock; nothing on a failed
\* try_lock).
TaskContentLengthReturn(t) ==
    /\ mainPc = "serving"
    /\ reqs[t].pc = "generated"
    /\ sm2Enabled' = IF reqs[t].guard /\ ~sm2Locked THEN FALSE ELSE sm2Enabled
    /\ reqs' = [reqs EXCEPT ![t].pc = "phase1_done",
                             ![t].length = Len(reqs[t].html),
                             ![t].guard = FALSE]
    /\ UNCHANGED <<mainPc, setCalls, sm2Cell, sm2Locked, single>>

\* write_content(self, writer): the cached slot goes to the writer.
TaskWriteContent(t) ==
    /\ mainPc = "serving"
    /\ CanRun(t)
    /\ reqs[t].pc \in {"received", "phase1_done"}
    /\ reqs' = [reqs EXCEPT ![t].pc = "written", ![t].sink = reqs[t].message]
    /\ UNCHANGED <<mainPc, setCalls, sm2Cell, sm2Locked, sm2Enabled, single>>

\* The response is sent and the FormValue is gone; the task serves again.
TaskDone(t) ==
    /\ mainPc = "serving"
    /\ CanRun(t)
    /\ reqs[t].pc = "written"
    /\ reqs' = [reqs EXCEPT ![t] = NoSubmission("listening")]
    /\ UNCHANGED <<mainPc, setCalls, sm2Cell, sm2Locked, sm2Enabled, single>>

-----------------------------------------------------------------------------
(* main.rs: SHARED_SM2_CELL and the bring-up in main *)

\* Mutant of set_shared_sm2: a later call replaces the handle.
set_shared_sm2_overwriting(h, after) ==
    /\ setCalls' = Append(setCalls, h)
    /\ sm2Cell' = h
    /\ mainPc' = after

\* set_shared_sm2(sm2): panics when the cell is Some, fills it otherwise;
\* main goes on at `after`.
set_shared_sm2(h, after) ==
    /\ setCalls' = Append(setCalls, h)
    /\ IF sm2Cell # None
       THEN mainPc' = "panicked" /\ UNCHANGED sm2Cell
       ELSE sm2Cell' = h /\ mainPc' = after

\* main up to the first panic-message test: with a message persisted by an
\* earlier panic, main logs it and sleeps for ever.
MainBoot ==
    /\ mainPc = "boot"
    /\ mainPc' \in {"pio_setup", "halted"}
    /\ UNCHANGED <<setCalls, reqs, sm2Cell, sm2Locked, sm2Enabled, single>>

\* Mutant of MainSetSharedSm2: main goes on without setting the handle.
MainForgetsSharedSm2 ==
    /\ mainPc = "pio_setup"
    /\ mainPc' = "sm2_set"
    /\ UNCHANGED <<setCalls, reqs, sm2Cell, sm2Locked, sm2Enabled, single>>

\* let sm2_ref = make_static!(..); set_shared_sm2(sm2_ref);
MainSetSharedSm2 ==
    /\ mainPc = "pio_setup"
    /\ set_shared_sm2("sm2_ref", "sm2_set")
    /\ UNCHANGED <<reqs, sm2Locked, sm2Enabled, single>>

\* spawner.must_spawn(pio_task_sm2(..)); panic_led_loop!(control);
\* pio_task_sm2 never touches the SharedSm2 it is given.
MainSpawnPioTask ==
    /\ mainPc = "sm2_set"
    /\ mainPc' \in {"net_setup", "halted"}
    /\ UNCHANGED <<setCalls, reqs, sm2Cell, sm2Locked, sm2Enabled, single>>

\* The network bring-up and the other background tasks, with their
\* panic_led_loop tests.
MainBringUpNet ==
    /\ mainPc = "net_setup"
    /\ mainPc' \in {"spawn_web", "halted"}
    /\ UNCHANGED <<setCalls, reqs, sm2Cell, sm2Locked, sm2Enabled, single>>

\* for id in 0..WEB_TASK_POOL_SIZE - 2 { unwrap!(spawner.spawn(web_task(..))) }:
\* one iteration; after the last one main returns and the tasks run.
MainSpawnWebTask ==
    /\ mainPc = "spawn_web"
    /\ \E t \in Tasks :
          /\ reqs[t].pc = "unspawned"
          /\ \A q \in 1..(t - 1) : reqs[q].pc # "unspawned"
          /\ reqs' = [reqs EXCEPT ![t].pc = "listening"]
          /\ mainPc' = IF t = MaxWebTasks THEN "serving" ELSE "spawn_web"
    /\ UNCHANGED <<setCalls, sm2Cell, sm2Locked, sm2Enabled, single>>

\* A test harness calls set_shared_sm2 with some handle; its panic is the
\* end of the process, and of the submission with it.
HarnessSetSharedSm2 ==
    /\ mainPc = "serving"
    /\ \E h \in Handles : set_shared_sm2(h, "serving")
    /\ pc' = IF sm2Cell # None THEN "panicked" ELSE pc
    /\ UNCHANGED <<reqs, sm2Locked, sm2Enabled, submission>>

\* Another holder of a SharedSm2 takes the Sm2Mutex ...
OtherLock ==
    /\ mainPc = "serving"
    /\ sm2Cell # None
    /\ ~sm2Locked
    /\ sm2Locked' = TRUE
    /\ UNCHANGED <<mainPc, setCalls, reqs, sm2Cell, sm2Enabled, single>>

\* ... and releases it.
OtherUnlock ==
    /\ mainPc = "serving"
    /\ sm2Locked
    /\ ~held
    /\ sm2Locked' = FALSE
    /\ UNCHANGED <<mainPc, setCalls, reqs, sm2Cell, sm2Enabled, single>>

-----------------------------------------------------------------------------
(* Specifications *)

\* Sudoku::solve_fast called on each of the input grids.
SolveInit ==
    /\ pc = "solve_fast"
    /\ grid \in InputGrids
    /\ schema = ""
    /\ parseRes = "none"
    /\ grid0 = DefaultGrid
    /\ rows = NoTracker
    /\ cols = NoTracker
    /\ boxes = NoTracker
    /\ stack = << >>
    /\ ret = FALSE
    /\ solveRes = "none"
    /\ form = << >>
    /\ message = ""
    /\ html = ""
    /\ length = -1
    /\ sink = "none"
    /\ sm2Cell = None
    /\ sm2Locked = FALSE
    /\ sm2Enabled = FALSE
    /\ guard = FALSE
    /\ held = FALSE
    /\ tryLog = << >>
    /\ calls = << >>
    /\ phase1Calls = 0
    /\ mainPc = "serving"
    /\ setCalls = << >>
    /\ reqs = << >>

SolveNext ==
    \/ SolveFastInit
    \/ RecEnter
    \/ RecTry
    \/ RecExhausted
    \/ RecReturn
    \/ SolveFastReturn

SolveSpec == SolveInit /\ [][SolveNext]_vars

\* Sudoku::solve_fast called on each of the input grids and on the grid
\* with all 81 cells empty.
SolveLiveInit ==
    /\ pc = "solve_fast"
    /\ grid \in InputGrids \cup {DefaultGrid}
    /\ schema = ""
    /\ parseRes = "none"
    /\ grid0 = DefaultGrid
    /\ rows = NoTracker
    /\ cols = NoTracker
    /\ boxes = NoTracker
    /\ stack = << >>
    /\ ret = FALSE
    /\ solveRes = "none"
    /\ form = << >>
    /\ message = ""
    /\ html = ""
    /\ length = -1
    /\ sink = "none"
    /\ sm2Cell = None
    /\ sm2Locked = FALSE
    /\ sm2Enabled = FALSE
    /\ guard = FALSE
    /\ held = FALSE
    /\ tryLog = << >>
    /\ calls = << >>
    /\ phase1Calls = 0
    /\ mainPc = "serving"
    /\ setCalls = << >>
    /\ reqs = << >>

\* solve_fast is sequential code that keeps running until it returns or
\* panics: some step is taken as long as one is possible.
SolveLiveSpec == SolveLiveInit /\ [][SolveNext]_vars /\ WF_vars(SolveNext)

\* One submission from its deserialisation on: content_length any number of
\* times, then write_content.  The handle was set by main before the web
\* tasks were spawned.
Init ==
    /\ pc = "idle"
    /\ form \in Forms
    /\ schema = ""
    /\ grid = DefaultGrid
    /\ parseRes = "none"
    /\ grid0 = DefaultGrid
    /\ rows = NoTracker
    /\ cols = NoTracker
    /\ boxes = NoTracker
    /\ stack = << >>
    /\ ret = FALSE
    /\ solveRes = "none"
    /\ message = ""
    /\ html = ""
    /\ length = -1
    /\ sink = "none"
    /\ sm2Cell = "sm2_ref"
    /\ sm2Locked = FALSE
    /\ sm2Enabled = FALSE
    /\ guard = FALSE
    /\ held = FALSE
    /\ tryLog = << >>
    /\ calls = << >>
    /\ phase1Calls = 0
    /\ mainPc = "serving"
    /\ setCalls = <<"sm2_ref">>
    /\ reqs = << >>

Next ==
    \/ ContentLengthEnter
    \/ Sm2GuardNew
    \/ GenerateHtmlParse
    \/ SolveFastInit
    \/ RecEnter
    \/ RecTry
    \/ RecExhausted
    \/ RecReturn
    \/ SolveFastReturn
    \/ GenerateHtmlSolved
    \/ GenerateHtmlStore
    \/ ContentLengthReturn
    \/ Sm2GuardDrop
    \/ WriteContent

Spec == Init /\ [][Next]_vars

\* Sudoku::parse called on each of the texts, on a default and on a filled
\* Sudoku.
CallParse ==
    /\ pc = "parse"
    /\ \E r \in {Parse(grid, schema)} :
          /\ parseRes' = r.res
          /\ grid' = r.grid
          /\ pc' = IF r.res = "Panic" THEN "panicked" ELSE "parse_done"
    /\ UNCHANGED <<schema, grid0, rows, cols, boxes, stack, ret, solveRes, form,
                   message, html, length, sink, sm2Cell, sm2Locked, sm2Enabled,
                   guard>>
    /\ UNCHANGED <<hist, locking, server>>

ParseInit ==
    /\ pc = "parse"
    /\ schema \in ParseTexts
    /\ grid \in PriorGrids
    /\ parseRes = "none"
    /\ grid0 = DefaultGrid
    /\ rows = NoTracker
    /\ cols = NoTracker
    /\ boxes = NoTracker
    /\ stack = << >>
    /\ ret = FALSE
    /\ solveRes = "none"
    /\ form = << >>
    /\ message = ""
    /\ html = ""
    /\ length = -1
    /\ sink = "none"
    /\ sm2Cell = None
    /\ sm2Locked = FALSE
    /\ sm2Enabled = FALSE
    /\ guard = FALSE
    /\ held = FALSE
    /\ tryLog = << >>
    /\ calls = << >>
    /\ phase1Calls = 0
    /\ mainPc = "serving"
    /\ setCalls = << >>
    /\ reqs = << >>

ParseNext == CallParse

ParseSpec == ParseInit /\ [][ParseNext]_vars

\* The one submission before any call on it, with rows f.
FreshSingle(f) ==
    /\ pc = "idle"
    /\ schema = ""
    /\ grid = DefaultGrid
    /\ parseRes = "none"
    /\ grid0 = DefaultGrid
    /\ rows = NoTracker
    /\ cols = NoTracker
    /\ boxes = NoTracker
    /\ stack = << >>
    /\ ret = FALSE
    /\ solveRes = "none"
    /\ form = f
    /\ message = ""
    /\ html = ""
    /\ length = -1
    /\ sink = "none"
    /\ guard = FALSE
    /\ held = FALSE
    /\ tryLog = << >>
    /\ calls = << >>
    /\ phase1Calls = 0

TaskNext ==
    \E t \in Tasks :
        \/ TaskReceive(t)
        \/ TaskContentLengthEnter(t)
        \/ TaskGenerateHtml(t)
        \/ TaskContentLengthReturn(t)
        \/ TaskWriteContent(t)
        \/ TaskDone(t)

\* The process from reset on: main's bring-up, then the web tasks serving
\* submissions.
ServerInit ==
    /\ FreshSingle(<< >>)
    /\ mainPc = "boot"
    /\ setCalls = << >>
    /\ reqs = [t \in Tasks |-> NoSubmission("unspawned")]
    /\ sm2Cell = None
    /\ sm2Locked = FALSE
    /\ sm2Enabled = FALSE

ServerNext ==
    \/ MainBoot
    \/ MainSetSharedSm2
    \/ MainSpawnPioTask
    \/ MainBringUpNet
    \/ MainSpawnWebTask
    \/ TaskNext

ServerSpec == ServerInit /\ [][ServerNext]_vars

\* One submission in a harness that simulates the environment of the guard:
\* the handle is unset until the harness sets it, and another holder takes
\* and releases the lock at any time.  A panic of set_shared_sm2 ends it.
GuardInit ==
    /\ \E f \in ServerForms : FreshSingle(f)
    /\ mainPc = "serving"
    /\ setCalls = << >>
    /\ reqs = << >>
    /\ sm2Cell = None
    /\ sm2Locked = FALSE
    /\ sm2Enabled = FALSE

GuardNext ==
    \/ Next
    \/ HarnessSetSharedSm2
    \/ OtherLock
    \/ OtherUnlock

GuardSpec == GuardInit /\ [][GuardNext]_vars

-----------------------------------------------------------------------------
(* Predicates on grids *)

At(g, p) == g[p[1]][p[2]]

RowUnit(r) == {<<r, c>> : c \in Idx}
ColUnit(c) == {<<r, c>> : r \in Idx}
BoxUnit(b) == {p \in Cells : BoxOf(p[1], p[2]) = b}

\* The 27 rows, columns and 3x3 boxes.
Units == {RowUnit(r) : r \in Idx} \cup {ColUnit(c) : c \in Idx}
             \cup {BoxUnit(b) : b \in Idx}

CellsInRange(g) == \A p \in Cells : At(g, p) \in 0..9

\* No non-zero digit occurs twice in a row, a column or a box.
NoRepeat(g) ==
    \A u \in Units : \A p, q \in u : (p # q /\ At(g, p) # 0) => At(g, p) # At(g, q)

\* Every row, column and box holds each of 1..9 exactly once.
Solved(g) ==
    \A u \in Units : \A d \in Digits : Cardinality({p \in u : At(g, p) = d}) = 1

EmptyCells(g) == {p \in Cells : At(g, p) = 0}

\* The digits no cell of p's row, column and box holds.
Candidates(g, p) ==
    {d \in Digits : \A q \in Cells :
        (q[1] = p[1] \/ q[2] = p[2] \/ BoxOf(q[1], q[2]) = BoxOf(p[1], p[2]))
            => At(g, q) # d}

\* Some assignment of 1..9 to the empty cells of g gives a solved grid.
RECURSIVE HasCompletion(_)
HasCompletion(g) ==
    IF EmptyCells(g) = {} THEN Solved(g)
    ELSE LET p == CHOOSE p \in EmptyCells(g) : TRUE
         IN \E d \in Candidates(g, p) : HasCompletion(Poked(g, p, d))

ValidInput == CellsInRange(grid0) /\ NoRepeat(grid0)

-----------------------------------------------------------------------------
(* Claims about solve_fast, checked under SolveSpec *)

\* C1 as stated: on every grid with cells in 0..9 and no repeated non-zero
\* digit in a unit, solve_fast returns Ok(()) and leaves every row, column
\* and box holding each of 1..9 exactly once.
C1_AnyValidGridIsSolved ==
    (pc = "solve_done" /\ ValidInput) => (solveRes = "Ok" /\ Solved(grid))

\* C1 amended: on every grid with cells in 0..9, no repeated non-zero digit
\* in a unit and at least one valid completion, solve_fast returns Ok(()) and
\* leaves every row, column and box holding each of 1..9 exactly once.
C1_CompletableGridIsSolved ==
    (pc = "solve_done" /\ ValidInput /\ HasCompletion(grid0))
        => (solveRes = "Ok" /\ Solved(grid))

\* C1 witness: solve_fast has returned on a completable grid with at least
\* three empty cells, after a search that had to undo a placement (the
\* first empty cell does not hold the first digit that was viable there).
C1_Witness ==
    /\ pc = "solve_done"
    /\ ValidInput
    /\ HasCompletion(grid0)
    /\ Cardinality(EmptyCells(grid0)) >= 3
    /\ solveRes = "Ok"
    /\ At(grid, FirstEmpty(grid0)) # CHOOSE d \in Candidates(grid0, FirstEmpty(grid0)) :
                                         \A e \in Candidates(grid0, FirstEmpty(grid0)) : d <= e

\* C2: whenever solve_fast returns Ok(()) on a grid with cells in 0..9 and no
\* repeated non-zero digit in a unit, the resulting grid has no 0 cell, all
\* cells in 1..9, no repeated digit in a unit, and every given unchanged.
C2_OkIsSound ==
    (pc = "solve_done" /\ solveRes = "Ok" /\ ValidInput)
        => /\ \A p \in Cells : At(grid, p) # 0
           /\ \A p \in Cells : At(grid, p) \in 1..9
           /\ NoRepeat(grid)
           /\ \A p \in Cells : At(grid0, p) # 0 => At(grid, p) = At(grid0, p)

\* C2 witness: solve_fast returned Ok(()) on a valid grid with four empty
\* cells and filled them with a completion other than the example's.
C2_Witness ==
    /\ pc = "solve_done"
    /\ solveRes = "Ok"
    /\ ValidInput
    /\ Cardinality(EmptyCells(grid0)) = 4
    /\ grid # Solution

HasRepeat(g) == ~NoRepeat(g)

\* C3 as stated: on every grid with cells in 0..9 in which a non-zero digit
\* is placed twice in a row, a column or a box, solve_fast returns
\* Err(NoSolution), however many cells are empty; it never returns Ok.
C3_RepeatedDigitIsNoSolution ==
    (pc = "solve_done" /\ CellsInRange(grid0) /\ HasRepeat(grid0))
        => solveRes = "NoSolution"

-----------------------------------------------------------------------------
(* Claims about parse, checked under ParseSpec *)

ParseEnded == pc \in {"parse_done", "panicked"}

RowGroups(s) == Split(s, " ")
TokensOf(group) == Split(group, ",")

\* A token parse accepts: "_" or a number parse::<u8> takes, once trimmed.
Acceptable(t) == Trim(t) = "_" \/ ParseU8(Trim(t)) # -1

Range(q) == {q[i] : i \in 1..Len(q)}

AllTokensAcceptable(s) ==
    \A groups \in {RowGroups(s)} :
        \A i \in 1..Len(groups) :
            \A tokens \in {TokensOf(groups[i])} :
                \A j \in 1..Len(tokens) : Acceptable(tokens[j])

\* Some row-group of s has a number of tokens other than 9.
SomeGroupNotNineTokens(s) ==
    \A groups \in {RowGroups(s)} :
        \E i \in 1..Len(groups) : Len(TokensOf(groups[i])) # 9

\* Cell (r, c) of g holds the value of token c of row-group r of s.
CellsHoldTokenValues(g, s) ==
    \A groups \in {RowGroups(s)} :
        \A r \in Idx :
            \A tokens \in {TokensOf(groups[r + 1])} :
                \A c \in Idx :
                    \A t \in {Trim(tokens[c + 1])} :
                        g[r][c] = IF t = "_" THEN 0 ELSE ParseU8(t)

\* C5 as stated: parse returns Err(NotEnoughArguments) for every text whose
\* number of space-separated row-groups is not 9, smaller or larger,
\* whatever the tokens are.
C5_WrongGroupCountIsNotEnoughArguments ==
    (ParseEnded /\ Len(RowGroups(schema)) # 9) => parseRes = "NotEnoughArguments"

\* C6 as stated: for every text of exactly 9 row-groups, a token that is
\* neither "_" nor a decimal integer in 0..255 makes parse return
\* Err(InvalidNumber); "_" is stored as 0 and every other accepted token as
\* its integer value.
C6_BadTokenIsInvalidNumber ==
    (ParseEnded /\ Len(RowGroups(schema)) = 9)
        => /\ ~AllTokensAcceptable(schema) => parseRes = "InvalidNumber"
           /\ parseRes = "Ok" => CellsHoldTokenValues(grid, schema)

\* C7 as stated: for every text of exactly 9 row-groups whose tokens are all
\* acceptable, parse returns Err(InvalidNumber) whenever some row-group has
\* a number of tokens other than 9: fewer, 10..18, or more than 18.
C7_WrongTokenCountIsInvalidNumber ==
    (/\ ParseEnded
     /\ Len(RowGroups(schema)) = 9
     /\ AllTokensAcceptable(schema)
     /\ SomeGroupNotNineTokens(schema))
        => parseRes = "InvalidNumber"

\* C8: parse on the canonical text of a grid with cells in 0..9 returns Ok
\* and leaves exactly that grid, whatever the Sudoku held before.
C8_ParseInvertsSerialize ==
    ParseEnded =>
        \A x \in SerializedInputs :
            schema = x[2] => (parseRes = "Ok" /\ grid = x[1])

\* C8 witness: parse has returned on the canonical text of a grid with three
\* or more empty cells and the Sudoku holds that grid.
C8_Witness ==
    /\ pc = "parse_done"
    /\ \E x \in SerializedInputs :
           /\ schema = x[2]
           /\ Cardinality(EmptyCells(x[1])) >= 3
           /\ grid = x[1]

\* C9 as stated: every grid for which parse returns Ok has each of its 81
\* cells in 0..9.
C9_ParsedCellsInRange ==
    (pc = "parse_done" /\ parseRes = "Ok") => CellsInRange(grid)

-----------------------------------------------------------------------------
(* Claims about the two-phase response, checked under Spec *)

ErrorKinds == {"InvalidFormat", "InvalidNumber", "NotEnoughArguments", "NoSolution"}

ErrorPages ==
    {error_html(msg, e) : msg \in {"Error parsing schema", "Error solving schema"},
                          e \in ErrorKinds}

\* C4 as stated: for every submission of nine rows of at most 20 characters,
\* Phase 1 ends normally with a byte length and a cached body that is the
\* success page or an error page of one of the four kinds; nothing makes the
\* pipeline panic.
C4_Phase1NeverPanics ==
    (\A k \in 1..9 : Len(form[k]) <= RowCap)
        => /\ pc # "panicked"
           /\ pc = "phase1_done" =>
                  /\ length = Len(message)
                  /\ \/ solveRes = "Ok" /\ message = html_table(grid)
                     \/ message \in ErrorPages

\* C10: when write_content is called after content_length on the same
\* FormValue, what it hands to the writer is exactly the text content_length
\* stored in message, and its length is what content_length returned.
C10_Phase2WritesCachedBody ==
    (pc = "written" /\ length # -1) => (sink = message /\ Len(sink) = length)

\* C10 witness: write_content ran after a content_length that solved the
\* grid, and wrote a body as long as content_length said.
C10_Witness ==
    /\ pc = "written"
    /\ solveRes = "Ok"
    /\ length > 0
    /\ Len(sink) = length

-----------------------------------------------------------------------------
(* Claims about the order of the pipeline, checked under Spec *)

\* The invocations one content_length call can have made so far: the
\* Parser, then the Solver if the Parser returned Ok, then a Renderer.
PipelineOrders ==
    {<< >>, <<"parse">>, <<"parse", "error_html">>, <<"parse", "solve_fast">>,
     <<"parse", "solve_fast", "html_table">>,
     <<"parse", "solve_fast", "error_html">>}

\* content_length is running.
InPhase1 == pc \notin {"idle", "phase1_done", "written"}

\* C11: for a request whose Phase 1 is called once, the Parser, the Solver and
\* the Renderer are invoked in that order, each at most once and only inside
\* Phase 1, the Solver only after the Parser returned Ok; Phase 2 invokes none
\* of them and leaves the cached slot as it was.
C11_PipelineOncePerRequest ==
    /\ [](phase1Calls <= 1 =>
            /\ calls \in PipelineOrders
            /\ (Len(calls) >= 2 /\ calls[2] = "solve_fast") => parseRes = "Ok")
    /\ [][calls' # calls => (InPhase1 /\ pc' # "written")]_vars
    /\ [][pc' = "written" => (calls' = calls /\ message' = message)]_vars

\* C11 witness: Phase 2 has run after one Phase 1 that parsed, solved and
\* rendered the table.
C11_Witness ==
    /\ pc = "written"
    /\ phase1Calls = 1
    /\ calls = <<"parse", "solve_fast", "html_table">>
    /\ sink = message

\* C12: write_content called on a fresh FormValue, on which content_length
\* was never called, hands zero bytes to the writer and returns.
C12_Phase2AloneWritesNothing ==
    (pc = "written" /\ phase1Calls = 0) => (sink = "" /\ Len(sink) = 0)

\* C12 witness: write_content has returned on a FormValue that never saw
\* content_length, with nothing written.
C12_Witness ==
    /\ pc = "written"
    /\ phase1Calls = 0
    /\ length = -1
    /\ sink = ""

\* The step-by-step pipeline and the pipeline as a function agree on every
\* submission.
PipelineAgrees ==
    /\ pc = "processed" => (html = generate_html(form).text /\ ~generate_html(form).panic)
    /\ pc = "panicked" => generate_html(form).panic

-----------------------------------------------------------------------------
(* Claims about the web tasks and the bring-up, checked under ServerSpec *)

\* Task t holds a FormValue.
Live(t) == reqs[t].pc \notin {"unspawned", "listening"}

\* C13: the cached slot of a submission is empty until its Phase 1 stores
\* the page; from then on its content never changes while the submission
\* lives, whatever Phase 1 and Phase 2 calls follow; and only the
\* submission's own Phase 1 writes it and only its own Phase 2 reads it.
C13_CachedSlotIsWriteOnce ==
    /\ [](\A t \in Tasks :
            /\ (reqs[t].length = -1 /\ reqs[t].pc # "generated") => reqs[t].message = ""
            /\ reqs[t].pc = "written" => reqs[t].sink = reqs[t].message)
    /\ [][\A t \in Tasks :
            (reqs[t].message # "" /\ reqs'[t].pc # "listening")
                => reqs'[t].message = reqs[t].message]_vars
    /\ [][\A t \in Tasks :
            reqs'[t].message # reqs[t].message
                => /\ \/ reqs[t].pc = "in_scope" /\ reqs'[t].pc = "generated"
                      \/ reqs[t].pc = "written" /\ reqs'[t].pc = "listening"
                   /\ \A q \in Tasks \ {t} : reqs'[q] = reqs[q]]_vars

\* C13 witness: two submissions with different pages are alive; one has
\* run Phase 2 after Phase 1, the other Phase 1, each with its own page.
C13_Witness ==
    \E t, q \in Tasks :
        /\ reqs[t].pc = "written"
        /\ reqs[t].sink = generate_html(reqs[t].form).text
        /\ reqs[q].pc = "phase1_done"
        /\ reqs[q].message = generate_html(reqs[q].form).text
        /\ reqs[q].message # reqs[t].message

\* The tasks inside their guard scope with a guard of their own.
InScopeWithGuard == {t \in Tasks : reqs[t].pc \in SyncPositions /\ reqs[t].guard}

\* C16: with several requests alive, at most one is inside its guard scope
\* with the device enabled by its own acquisition, and while a request's
\* guard scope is open no other request has disabled the device.
C16_OneRequestHoldsDevice ==
    /\ Cardinality(InScopeWithGuard) <= 1
    /\ \A t \in InScopeWithGuard : sm2Enabled

\* C16 witness: one request is inside its guard scope with the device
\* enabled while another one, which ran its own guard scope before, is
\* waiting for its Phase 2.
C16_Witness ==
    \E t, q \in Tasks :
        /\ t \in InScopeWithGuard
        /\ sm2Enabled
        /\ reqs[q].pc = "phase1_done"

\* C18: set_shared_sm2 is called once, before any web task is spawned, and
\* every Phase 1 finds the handle set (and its lock free).
C18_HandleSetBeforeWebTasks ==
    /\ Len(setCalls) <= 1
    /\ (\E t \in Tasks : reqs[t].pc # "unspawned")
           => (setCalls = <<"sm2_ref">> /\ get_shared_sm2 = "sm2_ref")
    /\ \A t \in Tasks : reqs[t].pc \in SyncPositions => reqs[t].guard

\* C18 witness: after a bring-up that set the handle once, a web task is
\* inside Phase 1 with its guard.
C18_Witness ==
    /\ mainPc = "serving"
    /\ setCalls = <<"sm2_ref">>
    /\ \E t \in Tasks : reqs[t].pc = "in_scope" /\ reqs[t].guard

-----------------------------------------------------------------------------
(* Claims about the guard and the handle, checked under GuardSpec *)

\* C14 as stated: after every exit of a guard scope the device's enabled
\* flag is false: with the entry acquisition succeeded or failed, with the
\* exit acquisition contended by another holder of the lock, and with the
\* pipeline ending in an error page.
C14_DeviceDisabledAfterScope ==
    (mainPc = "serving" /\ pc \in {"phase1_done", "written"}) => ~sm2Enabled

\* C15: whatever the guard did (handle unset, entry try_lock failed or
\* succeeded, exit try_lock failed), the cached body and the length Phase 1
\* returns are those of the pipeline on the nine rows, and Phase 1 panics
\* only where the pipeline itself panics on these rows.
C15_GuardNeverChangesResponse ==
    /\ pc \in {"phase1_done", "written"} /\ phase1Calls > 0
           => /\ message = generate_html(form).text
              /\ length = Len(generate_html(form).text)
    /\ (pc = "panicked" /\ mainPc = "serving") => generate_html(form).panic

\* C15 witness: Phase 1 has returned the solved page and its length although
\* the exit try_lock failed and left the device enabled.
C15_Witness ==
    /\ pc = "phase1_done"
    /\ mainPc = "serving"
    /\ sm2Enabled
    /\ sm2Locked
    /\ solveRes = "Ok"
    /\ message = html_table(grid)
    /\ length = Len(message)

\* C17: the handle is None until set_shared_sm2 is first called, that call
\* stores its argument, any later call panics and leaves the stored handle
\* as it is, and once set get_shared_sm2 returns the same handle for ever.
C17_HandleIsSetOnce ==
    /\ [](setCalls = << >> => get_shared_sm2 = None)
    /\ [](setCalls # << >> => get_shared_sm2 = setCalls[1])
    /\ [](Len(setCalls) >= 2 <=> mainPc = "panicked")
    /\ [][sm2Cell # None => sm2Cell' = sm2Cell]_vars

\* C17 witness: a second set_shared_sm2 call, with another handle, has
\* panicked and the first handle is still the one stored.
C17_Witness ==
    /\ Len(setCalls) = 2
    /\ setCalls[1] # setCalls[2]
    /\ get_shared_sm2 = setCalls[1]
    /\ mainPc = "panicked"

-----------------------------------------------------------------------------
(* Claims about the rendered bodies, checked under Spec *)

\* The markup of one row and of the whole success page as the
\* specification describes them, with no capacity in the way.
RowMarkup(row) ==
    "<tr>" \o "<td>" \o ToString(row[0]) \o "</td>" \o "<td>" \o ToString(row[1]) \o "</td>"
           \o "<td>" \o ToString(row[2]) \o "</td>" \o "<td>" \o ToString(row[3]) \o "</td>"
           \o "<td>" \o ToString(row[4]) \o "</td>" \o "<td>" \o ToString(row[5]) \o "</td>"
           \o "<td>" \o ToString(row[6]) \o "</td>" \o "<td>" \o ToString(row[7]) \o "</td>"
           \o "<td>" \o ToString(row[8]) \o "</td>" \o "</tr>"

CompleteTablePage(g) ==
    HTML_HEADER \o "<h1>Solved Sudoku</h1>" \o "<table border=\"1\">"
        \o RowMarkup(g[0]) \o RowMarkup(g[1]) \o RowMarkup(g[2])
        \o RowMarkup(g[3]) \o RowMarkup(g[4]) \o RowMarkup(g[5])
        \o RowMarkup(g[6]) \o RowMarkup(g[7]) \o RowMarkup(g[8])
        \o "</table>" \o "</body></html>"

\* C19 as stated: for every solved grid the success body is, in order, the
\* header, the <h1> banner, <table border="1">, nine <tr> rows of nine
\* <td>digit</td> cells, </table> and the footer </body></html>, all within
\* the 1024 bytes.
C19_SuccessBodyIsComplete ==
    (pc = "processed" /\ solveRes = "Ok" /\ Solved(grid))
        => (html = CompleteTablePage(grid) /\ Len(html) <= HtmlCap)

\* The error page the specification describes for a prefix and a kind.
ErrorPage(prefix, kind) ==
    HTML_HEADER \o "<h1>" \o prefix \o ": " \o DebugText(kind) \o "</h1>" \o "</body></html>"

\* C20: once the Renderer has run, the body is the error page with the
\* parsing prefix and the kind exactly when the Parser failed, the error page
\* with the solving prefix and the kind exactly when the Parser succeeded and
\* the Solver failed, and the success table exactly when both succeeded.
C20_ErrorBodyNamesStageAndKind ==
    pc = "processed" =>
        /\ \/ parseRes \in ErrorKinds
           \/ parseRes = "Ok" /\ solveRes \in ErrorKinds \cup {"Ok"}
        /\ parseRes \in ErrorKinds => html = ErrorPage("Error parsing schema", parseRes)
        /\ (parseRes = "Ok" /\ solveRes \in ErrorKinds)
               => html = ErrorPage("Error solving schema", solveRes)
        /\ (parseRes = "Ok" /\ solveRes = "Ok") => html = html_table(grid)
        /\ html \in {ErrorPage("Error parsing schema", k) : k \in ErrorKinds}
               => parseRes \in ErrorKinds
        /\ html \in {ErrorPage("Error solving schema", k) : k \in ErrorKinds}
               => (parseRes = "Ok" /\ solveRes \in ErrorKinds)
        /\ html = html_table(grid) => (parseRes = "Ok" /\ solveRes = "Ok")

\* C20 witness: the Parser succeeded, the Solver found no solution, and the
\* body is the solving error page.
C20_Witness ==
    /\ pc = "processed"
    /\ parseRes = "Ok"
    /\ solveRes = "NoSolution"
    /\ html = HTML_HEADER \o "<h1>Error solving schema: No solution found</h1></body></html>"

-----------------------------------------------------------------------------
(* Claims about the search of solve_rec, checked under SolveSpec *)

\* The solved grids that agree with g on its non-empty cells.
RECURSIVE Completions(_)
Completions(g) ==
    IF EmptyCells(g) = {} THEN (IF Solved(g) THEN {g} ELSE {})
    ELSE LET p == CHOOSE p \in EmptyCells(g) : TRUE
         IN UNION {Completions(Poked(g, p, d)) : d \in Candidates(g, p)}

\* The cell with row-major index k.
CellNo(k) == <<k \div 9, k % 9>>

\* a comes before b when the cells that are empty in g are read in
\* row-major order: they differ, and a is smaller at the first difference.
LexLess(a, b, g) ==
    \E k \in 0..80 :
        /\ At(g, CellNo(k)) = 0
        /\ At(a, CellNo(k)) < At(b, CellNo(k))
        /\ \A j \in 0..(k - 1) :
               At(g, CellNo(j)) = 0 => At(a, CellNo(j)) = At(b, CellNo(j))

\* C21: on a grid with cells in 0..9, no repeated digit and one or more
\* valid completions, solve_fast returns Ok and leaves the completion that
\* is lexicographically smallest when the originally empty cells are read in
\* row-major order; the grid it leaves is a function of the input (a second
\* run, solve_fast as a function of the input, leaves the same grid).
C21_FirstCompletionIsReturned ==
    (pc = "solve_done" /\ ValidInput)
        => \A all \in {Completions(grid0)} :
               all # {} =>
                   /\ solveRes = "Ok"
                   /\ grid \in all
                   /\ \A other \in all \ {grid} : LexLess(grid, other, grid0)
                   /\ grid = solve_fast(grid0).grid

\* C21 witness: solve_fast has returned on a grid with more than one valid
\* completion.
C21_Witness ==
    /\ pc = "solve_done"
    /\ ValidInput
    /\ solveRes = "Ok"
    /\ Cardinality(Completions(grid0)) >= 2

\* C22: on a grid with cells in 0..9 and no repeated non-zero digit in a
\* unit, solve_fast returns Err(NoSolution) only if no assignment of 1..9 to
\* the empty cells gives a valid grid.
C22_NoSolutionOnlyWithoutCompletion ==
    (pc = "solve_done" /\ ValidInput /\ solveRes = "NoSolution")
        => ~HasCompletion(grid0)

\* C22 witness: solve_fast has returned Err(NoSolution) on a grid without
\* repeated digit, with three or more empty cells and no completion.
C22_Witness ==
    /\ pc = "solve_done"
    /\ ValidInput
    /\ solveRes = "NoSolution"
    /\ Cardinality(EmptyCells(grid0)) >= 3
    /\ ~HasCompletion(grid0)

\* A solve_rec call is being entered, or one has just returned.
AtCallBoundary == pc \in {"rec_call", "rec_ret", "solve_done"}

\* C23: at the entry of every solve_rec call and at every return from one,
\* for every row r, column c, box b and digit d in 1..9, rows[r][d] (cols[c][d],
\* boxes[b][d]) is true exactly when d occurs in row r (column c, box b) of
\* the current grid, the box of cell (row, col) being (row/3)*3 + (col/3).
C23_TrackerMatchesGrid ==
    AtCallBoundary =>
        \A u \in Idx : \A d \in 1..9 :
            /\ rows[u][d] <=> \E p \in Cells : p[1] = u /\ At(grid, p) = d
            /\ cols[u][d] <=> \E p \in Cells : p[2] = u /\ At(grid, p) = d
            /\ boxes[u][d] <=>
                   \E p \in Cells : (p[1] \div 3) * 3 + (p[2] \div 3) = u /\ At(grid, p) = d

\* C23 witness: a solve_rec call two or more levels down has returned
\* false, with placements of the outer calls still in the grid and in the
\* tracker.
C23_Witness ==
    /\ pc = "rec_ret"
    /\ ~ret
    /\ Len(stack) >= 2
    /\ grid # grid0
    /\ rows # InitRows(grid0)

\* The row-major index of a cell.
RowMajor(p) == p[1] * 9 + p[2]

\* The cell the innermost solve_rec activation works on.
TopCell == <<stack[Len(stack)].row, stack[Len(stack)].col>>

\* C24: a solve_rec call works on one cell only, the first empty cell in
\* row-major order at its entry; it tries the digits there in ascending
\* order from 1, and it returns false only when all nine were tried, leaving
\* every later cell as the caller passed it.
C24_OnlyFirstEmptyCellIsBranched ==
    /\ [][Len(stack') = Len(stack) + 1 =>
              /\ At(grid, TopCell') = 0
              /\ \A q \in Cells : RowMajor(q) < RowMajor(TopCell') => At(grid, q) # 0
              /\ stack'[Len(stack')].num = 1]_vars
    /\ [][(Len(stack') = Len(stack) /\ stack # << >>) =>
              /\ TopCell' = TopCell
              /\ stack'[Len(stack')].num \in {stack[Len(stack)].num,
                                              stack[Len(stack)].num + 1}]_vars
    /\ [][\A p \in Cells : At(grid', p) # At(grid, p) =>
              /\ stack # << >>
              /\ p = TopCell
              /\ At(grid', p) \in {0, stack[Len(stack)].num}]_vars
    /\ [][(pc = "rec_loop" /\ pc' = "rec_ret") =>
              /\ ~ret'
              /\ stack[Len(stack)].num = 10
              /\ At(grid', TopCell) = 0
              /\ \A q \in Cells : RowMajor(q) > RowMajor(TopCell)
                                      => At(grid', q) = At(grid0, q)]_vars

\* C24 witness: a solve_rec call has returned false to its caller while a
\* later cell is still empty.
C24_Witness ==
    /\ pc = "rec_ret"
    /\ ~ret
    /\ stack # << >>
    /\ Cardinality(EmptyCells(grid)) >= 2

\* C28: when solve_fast returns Err(NoSolution) the grid is cell for cell
\* the grid it was called with.
C28_NoSolutionRestoresGrid ==
    (pc = "solve_done" /\ solveRes = "NoSolution")
        => \A p \in Cells : At(grid, p) = At(grid0, p)

\* C28 witness: solve_fast has returned Err(NoSolution) on a grid with three
\* or more empty cells, the first of which had a viable digit, so that a
\* placement was made and undone.
C28_Witness ==
    /\ pc = "solve_done"
    /\ solveRes = "NoSolution"
    /\ Cardinality(EmptyCells(grid0)) >= 3
    /\ Candidates(grid0, FirstEmpty(grid0)) # {}
    /\ grid = grid0

-----------------------------------------------------------------------------
(* Claims about the termination of solve_fast, checked under SolveLiveSpec *)

\* The number of cells of a 9x9 grid.
CellCount == 81

-----------------------------------------------------------------------------
(* Claims about the try_locks of the guard, checked under GuardSpec *)

\* How many entries of the given kinds the submission's log holds.
Logged(kinds) == Cardinality({i \in 1..Len(tryLog) : tryLog[i] \in kinds})

\* C26: every Phase 1 call runs the acquisition once on entry: one handle
\* lookup and, when the handle is set, one try_lock; the call never waits
\* for the lock (it can start whatever the state of the lock is), and after
\* a failed try_lock it goes straight on to the pipeline, without a guard
\* and without a second attempt.
C26_OneTryLockOnEntry ==
    /\ [](Logged({"lookup_none", "entry_ok", "entry_err"}) = phase1Calls)
    /\ []((Callable /\ phase1Calls < MaxPhase1Calls) => ENABLED ContentLengthEnter)
    /\ [][(Len(tryLog') > Len(tryLog) /\ tryLog'[Len(tryLog')] = "entry_err")
              => (pc' = "generate_html" /\ ~guard' /\ ~held')]_vars
    /\ [][(Logged({"entry_ok", "entry_err"})' > Logged({"entry_ok", "entry_err"}))
              => (Callable /\ phase1Calls' = phase1Calls + 1 /\ get_shared_sm2 # None)]_vars

\* C26 witness: Phase 1 has returned after its one try_lock on entry failed.
C26_Witness ==
    /\ pc = "phase1_done"
    /\ phase1Calls = 1
    /\ tryLog = <<"entry_err">>
    /\ length > 0

\* The outcome of the acquisition on entry of the latest Phase 1 call:
\* "lookup_none", "entry_err" or "entry_ok" ("none" before the first call).
EntryOutcome ==
    LET at == {i \in 1..Len(tryLog) : tryLog[i] \in {"lookup_none", "entry_ok", "entry_err"}}
    IN IF at = {} THEN "none"
       ELSE tryLog[CHOOSE i \in at : \A j \in at : j <= i]

\* C27: the device's enabled flag changes only in a Phase 1 call whose own
\* try_lock on entry succeeded; a call whose handle lookup returned None or
\* whose try_lock on entry failed has no guard and leaves the flag as it is
\* from its entry to its return, and the flag is cleared only by the drop of
\* a guard.
C27_NoGuardNoChange ==
    /\ [][sm2Enabled' # sm2Enabled => EntryOutcome' = "entry_ok"]_vars
    /\ [][(sm2Enabled /\ ~sm2Enabled') => (guard /\ pc = "guard_drop")]_vars
    /\ [](guard => EntryOutcome = "entry_ok")
    /\ []((InPhase1 /\ EntryOutcome \in {"lookup_none", "entry_err"}) => ~guard /\ ~held)

\* C27 witness: a Phase 1 call whose try_lock on entry failed has returned,
\* with the lock free at its exit, and the device is still enabled as an
\* earlier call left it.
C27_Witness ==
    /\ pc = "phase1_done"
    /\ tryLog = <<"entry_ok", "exit_err", "entry_err">>
    /\ sm2Enabled
    /\ ~sm2Locked

\* The positions of content_length between Sm2Guard::new and the drop of
\* _guard: the Parser, the Solver and the Renderer run here.
PipelinePositions ==
    {"generate_html", "solve_fast", "rec_call", "rec_loop", "rec_ret",
     "solve_done", "processed", "generated"}

\* C29: the submission holds the Sm2Mutex only from a successful try_lock, in
\* Sm2Guard::new or in its drop, to the set_enable call that follows it, and
\* never while the Parser, the Solver or the Renderer runs; the guard object
\* does not hold the lock.
C29_LockHeldOnlyAroundSetEnable ==
    /\ [](pc \in PipelinePositions => ~held)
    /\ [](held => sm2Locked)
    /\ [][(~held /\ held') =>
              \/ Callable /\ pc' = "guard_new"
              \/ pc = "generated" /\ pc' = "guard_drop"]_vars
    /\ [][(held /\ pc' \notin {pc, "panicked"}) =>
              /\ ~held'
              /\ ~sm2Locked'
              /\ sm2Enabled' = (pc = "guard_new")]_vars

\* C29 witness: the Solver is running for a submission that holds a guard;
\* the device is enabled and the lock is free.
C29_Witness ==
    /\ pc = "rec_loop"
    /\ guard
    /\ sm2Enabled
    /\ ~sm2Locked
    /\ ~held

-----------------------------------------------------------------------------
(* Claims about the error kinds, checked under Spec *)

\* C30: when parse returns an error it is NotEnoughArguments or
\* InvalidNumber, never InvalidFormat; when solve_fast returns an error it
\* is NoSolution.
C30_ErrorKindsReturned ==
    /\ parseRes \in ErrorKinds => parseRes \in {"NotEnoughArguments", "InvalidNumber"}
    /\ parseRes # "InvalidFormat"
    /\ solveRes \in ErrorKinds => solveRes = "NoSolution"
    /\ parseRes \in {"none", "Ok", "Panic"} \cup ErrorKinds
    /\ solveRes \in {"none", "Ok", "Panic"} \cup ErrorKinds

\* C30 witness: parse has returned Err(InvalidNumber) on a text of nine
\* row-groups with acceptable tokens only, one row-group not having nine of
\* them: the row conversion was not reached.
C30_Witness ==
    /\ pc = "processed"
    /\ Len(RowGroups(schema)) = 9
    /\ AllTokensAcceptable(schema)
    /\ SomeGroupNotNineTokens(schema)
    /\ parseRes = "InvalidNumber"

=============================================================================
